---- MODULE Spec2Model ----
(***************************************************************************)
(* Model of the scripts of the repository:                                 *)
(*   src/src/download_articles.py  (main, query_crossref, download_article) *)
(*   src/src/apply_gemini.py       (main, process_pdf)                      *)
(*   src/src/aggregate_gemini_out.py (main, process_lines)                 *)
(* One behaviour is one or two consecutive runs of one batch script over   *)
(* the same upstream enumeration and the same output directory, or one run *)
(* of the aggregation script over the model's output files.                *)
(***************************************************************************)
EXTENDS Integers, Sequences, FiniteSets, TLC

\* ------------------------------------------------------------------ bounds
MaxItems == 3    \* longest upstream enumeration (Crossref items / directory entries)
MaxDur   == 2    \* longest processor call, in clock ticks (SpecRate)
MaxCalls == 2    \* largest --rlq_calls tried (SpecRate)
MaxPer   == 2    \* largest --rlq_per_second tried (SpecRate)
MaxFiles == 2    \* most *.txt files in out_dir (SpecAggregate)
MaxLines == 2    \* most lines in one *.txt file (SpecAggregate)

\* ------------------------------------------------------- program constants
DefaultCallsDownload == 2     \* --rlq_calls default of download_articles
DefaultPerDownload   == 1     \* --rlq_per_second default of download_articles
DefaultCallsGemini   == 10    \* --rlq_calls default of apply_gemini
DefaultPerGemini     == 60    \* --rlq_per_second default of apply_gemini
HTTP_OK              == 200

\* ------------------------------------------------------------ input universe
\* DOIs are strings, modelled as sequences of characters.
DOI_AB    == <<"a", "/", "b">>
DOI_A_B   == <<"a", "_", "b">>
DOI_C     == <<"c">>
DOIs      == {DOI_AB, DOI_A_B, DOI_C}

\* Items of the Crossref response: a DOI and whether "title" is present and non-empty.
CrossrefItems ==
    {[DOI |-> d, title |-> TRUE] : d \in DOIs} \cup {[DOI |-> DOI_C, title |-> FALSE]}

\* Entries of articles_dir: a Path is its stem and its suffix.
Path(stem, suffix) == [stem |-> stem, suffix |-> suffix]
DirEntries ==
    { Path(DOI_A_B, ".pdf"), Path(DOI_C, ".pdf"), Path(DOI_C, ".txt"), Path(<<"d">>, ".pdf") }

\* The character U+0060 (grave accent, "tick"), which a string cannot hold here.
TICK == "U+0060"

\* Lines of a model output file, as readlines() returns them.
FENCE_LINE  == <<TICK, TICK, TICK, "\n">>
HEADER_LINE == <<"h", ",", "x", "\n">>
ROW_LINE    == <<" ", "1", ",", "2", "\n">>
BLANK_LINE  == <<"\n">>
Lines       == {FENCE_LINE, HEADER_LINE, ROW_LINE, BLANK_LINE}

\* out_dir.glob("*.txt") with n files: d.txt, dd.txt, ...
GlobTxt(n) == [k \in 1..n |-> Path([i \in 1..k |-> "d"], ".txt")]

\* All sequences over S of length at most n.
SeqUpTo(S, n) == UNION { [1..k -> S] : k \in 0..n }

\* Directory listings never repeat an entry.
Injective(s) == \A i, j \in DOMAIN s : s[i] = s[j] => i = j

StatusCodes == {HTTP_OK, 404}

\* ------------------------------------------------------------ pure functions
\* _doi_to_filename: doi.replace("/", "_")
_doi_to_filename(doi) == [i \in DOMAIN doi |-> IF doi[i] = "/" THEN "_" ELSE doi[i]]

\* out_dir / f"{_doi_to_filename(doi)}.pdf"
PdfPath(doi) == Path(_doi_to_filename(doi), ".pdf")

\* out_dir / f"{fname.stem}.txt"
TxtPath(fname) == Path(fname.stem, ".txt")

\* The directory of the rate-limit runs: d.pdf, dd.pdf, ddd.pdf, ...
RateEntries(n) == [k \in 1..n |-> Path([i \in 1..k |-> "d"], ".pdf")]

\* Every output location either script can touch.
OutPaths ==
    {PdfPath(d) : d \in DOIs} \cup {TxtPath(e) : e \in DirEntries}
        \cup {TxtPath(RateEntries(MaxItems + 1)[k]) : k \in 1..MaxItems + 1}


\* ------------------------------------------ aggregate_gemini_out: functions
\* string.ascii_letters + string.digits, as a set of characters
ALL_LETTERS_AND_DIGITS ==
    {"a", "b", "c", "d", "e", "f", "g", "h", "i", "j", "k", "l", "m",
     "n", "o", "p", "q", "r", "s", "t", "u", "v", "w", "x", "y", "z",
     "A", "B", "C", "D", "E", "F", "G", "H", "I", "J", "K", "L", "M",
     "N", "O", "P", "Q", "R", "S", "T", "U", "V", "W", "X", "Y", "Z",
     "0", "1", "2", "3", "4", "5", "6", "7", "8", "9"}

\* str.strip() removes these from both ends.
Whitespace == {" ", "\t", "\n", "\r"}

\* set(line)
CharSet(line) == {line[i] : i \in DOMAIN line}

\* a ^ b on sets
SymmetricDifference(a, b) == (a \ b) \cup (b \ a)

\* set == int in Python: a set is never equal to an integer.
SetEqInt(a, n) == FALSE

\* line.startswith(prefix)
StartsWith(line, prefix) ==
    Len(line) >= Len(prefix) /\ SubSeq(line, 1, Len(prefix)) = prefix

\* line.strip()
RECURSIVE LStrip(_)
LStrip(line) ==
    IF line # <<>> /\ Head(line) \in Whitespace THEN LStrip(Tail(line)) ELSE line
RECURSIVE RStrip(_)
RStrip(line) ==
    IF line # <<>> /\ line[Len(line)] \in Whitespace
    THEN RStrip(SubSeq(line, 1, Len(line) - 1)) ELSE line
Strip(line) == RStrip(LStrip(line))

\* line.split(sep) for a one-character sep: always at least one cell.
RECURSIVE Split(_, _)
Split(line, sep) ==
    IF \E i \in DOMAIN line : line[i] = sep
    THEN LET i == CHOOSE i \in DOMAIN line :
                      line[i] = sep /\ \A j \in 1..i - 1 : line[j] # sep
         IN  <<SubSeq(line, 1, i - 1)>> \o Split(SubSeq(line, i + 1, Len(line)), sep)
    ELSE <<line>>

\* process_lines, line 33: gemini wraps a csv with ticks
StartsWithTicks(line) == StartsWith(line, <<TICK, TICK, TICK>>)

\* process_lines, line 35: (set(line) ^ ALL_LETTERS_AND_DIGITS) == 0
XorIsZero(line) == SetEqInt(SymmetricDifference(CharSet(line), ALL_LETTERS_AND_DIGITS), 0)

\* process_lines.rejection_f
rejection_f(x) == StartsWithTicks(x) \/ XorIsZero(x)

\* process_lines: [line.strip() for line in lines if not rejection_f(line)]
RECURSIVE process_lines(_)
process_lines(lines) ==
    IF lines = <<>> THEN <<>>
    ELSE (IF rejection_f(Head(lines)) THEN <<>> ELSE <<Strip(Head(lines))>>)
             \o process_lines(Tail(lines))

\* main, line 57: columns = ["doi"]
DOI_COLUMN == <<"d", "o", "i">>

\* A main that writes the header for every file.
NeedsHeaderAlways(columns) == TRUE

\* main, line 62: if len(columns) == 1
NeedsHeader(columns) == Len(columns) = 1

\* The rows one file adds to the csv (lines 62-66).  Each row is the list of cells
\* passed to writer.writerow, with the file and the line of `lines` it came from.
RowsOf(columns, k, stem, lines) ==
    (IF NeedsHeader(columns)
     THEN <<[header |-> TRUE, cells |-> columns \o Split(lines[1], ","),
             file |-> k, line |-> 1]>>
     ELSE <<>>)
    \o [i \in 1..Len(lines) - 1 |->
           [header |-> FALSE, cells |-> <<stem>> \o Split(lines[i + 1], ","),
            file |-> k, line |-> i + 1]]

\* The file-system outcomes and results of one HTTP exchange with Wiley, as the
\* environment decides them: the response status, where (if anywhere) an
\* exception is raised, and how long the call takes.
\*   fault "request": requests.get raises;  "open": open() raises, nothing created;
\*   fault "write":   open() created/truncated the file and f.write raises.
Faults == {"none", "request", "open", "write"}
World(status, fault, dur) == [status |-> status, fault |-> fault, dur |-> dur]
\* Spec: every outcome, instantaneous calls.  SpecRate: every duration.
AllWorlds  == {World(s, f, 0) : s \in StatusCodes, f \in Faults}
RateWorlds == {World(HTTP_OK, f, d) : f \in {"none", "request"}, d \in 0..MaxDur}

LogRec(level, msg, item) == [level |-> level, msg |-> msg, item |-> item]
NoItem == <<>>

\* query_crossref: raises ValueError unless the status is 200, else returns the JSON.
query_crossref_no_check(status, response) ==
    [raised |-> FALSE, value |-> response, log |-> <<>>]
query_crossref(status, response) ==
    IF status # HTTP_OK
    THEN [raised |-> TRUE, value |-> <<>>,
          log |-> <<LogRec("error", "CROSS_REF_QUERY_FAILED", NoItem)>>]
    ELSE [raised |-> FALSE, value |-> response, log |-> <<>>]

\* A download_article that takes every response for the article.
StatusOkAlways(status_code) == TRUE

\* download_article, line 101: if response.status_code == 200
StatusOk(status_code) == status_code = HTTP_OK

\* download_article: the return value (or the exception), the output directory
\* after the call and the lines it logs.  `store` tells that the exception came
\* from writing the output file, `wrote` that the output file was opened for
\* writing (created or truncated).
download_article(doi, out, w) ==
    IF w.fault = "request"
    THEN [raised |-> TRUE, store |-> FALSE, wrote |-> FALSE, ret |-> FALSE,
          out |-> out, log |-> <<>>]
    ELSE IF StatusOk(w.status)
    THEN CASE w.fault = "open"  ->
                [raised |-> TRUE, store |-> TRUE, wrote |-> FALSE, ret |-> FALSE,
                 out |-> out, log |-> <<>>]
           [] w.fault = "write" ->
                [raised |-> TRUE, store |-> TRUE, wrote |-> TRUE, ret |-> FALSE,
                 out |-> [out EXCEPT ![PdfPath(doi)] = "partial"], log |-> <<>>]
           [] OTHER ->
                [raised |-> FALSE, store |-> FALSE, wrote |-> TRUE, ret |-> TRUE,
                 out |-> [out EXCEPT ![PdfPath(doi)] = "full"],
                 log |-> <<LogRec("info", "WILEY_DOWNLOAD_SUCCESS", doi)>>]
    ELSE [raised |-> FALSE, store |-> FALSE, wrote |-> FALSE, ret |-> FALSE, out |-> out,
          log |-> <<LogRec("error", "WILEY_DOWNLOAD_FAILED", doi)>>]

\* "except Exception": the handler of both dispatch loops catches every error the
\* processor raises.
ExceptCatchesNothing(raised) == FALSE
ExceptCatches(raised) == raised

\* dois = [article["DOI"] for article in items if article.get("title")]
Dois(items) ==
    LET titled == SelectSeq(items, LAMBDA a : a.title)
    IN  [i \in DOMAIN titled |-> titled[i].DOI]

Exists(out, path) == out[path] # "absent"

\* The indexes of s, in order, whose element satisfies Test.
RECURSIVE IndexesWhere(_, _, _)
IndexesWhere(s, Test(_), i) ==
    IF i > Len(s) THEN <<>>
    ELSE (IF Test(s[i]) THEN <<i>> ELSE <<>>) \o IndexesWhere(s, Test, i + 1)

Reverse(s) == [i \in DOMAIN s |-> s[Len(s) + 1 - i]]

\* for doi in dois: put it unless its .pdf exists.  The indexes put, in put order.
DoisToPutReversed(dois, out) ==
    Reverse(IndexesWhere(dois, LAMBDA d : ~Exists(out, PdfPath(d)), 1))
DoisToPut(dois, out) ==
    IndexesWhere(dois, LAMBDA d : ~Exists(out, PdfPath(d)), 1)

\* The status download_article sees: none (0) when requests.get raises.
ObservedStatus(w) == IF w.fault = "request" THEN 0 ELSE w.status

\* ratelimitqueue.RateLimitQueue(calls=rlq_calls, per=rlq_per_second)
RateLimitQueueSwapped(rlq_calls, rlq_per_second) ==
    [calls |-> rlq_per_second, per |-> rlq_calls]
RateLimitQueue(rlq_calls, rlq_per_second) ==
    [calls |-> rlq_calls, per |-> rlq_per_second]

\* RateLimitQueue.get's rate limit: when `calls` grants are logged, wait until the
\* oldest of them is `per` old, drop it, and log this grant at the time it is given.
GrantTime(rl, log, t) ==
    IF Len(log) >= rl.calls
    THEN (IF t - Head(log) < rl.per THEN Head(log) + rl.per ELSE t)
    ELSE t
CallLogAfter(rl, log, t) ==
    Append(IF Len(log) >= rl.calls THEN Tail(log) ELSE log, GrantTime(rl, log, t))


\* process_pdf followed by the write of its text (apply_gemini.main, lines 112-121):
\*   fault "request": process_pdf raises (reading the PDF or calling the model);
\*   fault "open":    output_loc.open("w") raises, nothing created;
\*   fault "write":   the file was created/truncated and f.write raises.
\* `raised` is an exception inside the try block, `uncaught` one after it.
process_and_store(article, out, w) ==
    CASE w.fault = "request" ->
            [raised |-> TRUE, uncaught |-> FALSE, wrote |-> FALSE, out |-> out]
      [] w.fault = "open" ->
            [raised |-> FALSE, uncaught |-> TRUE, wrote |-> FALSE, out |-> out]
      [] w.fault = "write" ->
            [raised |-> FALSE, uncaught |-> TRUE, wrote |-> TRUE,
             out |-> [out EXCEPT ![TxtPath(article)] = "partial"]]
      [] OTHER ->
            [raised |-> FALSE, uncaught |-> FALSE, wrote |-> TRUE,
             out |-> [out EXCEPT ![TxtPath(article)] = "full"]]

\* filter(lambda fname: not (out_dir / f"{fname.stem}.txt").exists()
\*        and fname.suffix == ".pdf", articles_in_dir): the indexes kept.
ArticlesToProcess(in_dir, out) ==
    IndexesWhere(in_dir, LAMBDA f : ~Exists(out, TxtPath(f)) /\ f.suffix = ".pdf", 1)

\* ------------------------------------------------------------------- state
VARIABLES
    script,      \* "download" (download_articles.py) or "gemini" (apply_gemini.py)
    run,         \* 1 or 2: which run of the script this is
    pc,          \* position in main
    source,      \* what the upstream enumeration returns (Crossref items / iterdir)
    opts,        \* the command line: [rlq_calls, rlq_per_second]
    rl,          \* the RateLimitQueue's configuration [calls, per], once constructed
    out_dir,     \* the output directory: path -> "absent" | "prior" | "full" | "partial"
    articles,    \* download: the Crossref items; gemini: the filtered list
    dois,        \* download: the DOIs with a title
    queue,       \* the RateLimitQueue's items
    call_log,    \* the RateLimitQueue's log of the last `calls` grant times
    unfinished,  \* queue.Queue.unfinished_tasks
    now,         \* the clock
    cur,         \* the item dequeued and not yet handled, <<item>> or <<>>
    results,     \* download: the list of download_article's return values
    pbar,        \* tqdm: [total, n]
    log,         \* the log file
    printed,     \* lines printed to stdout
    \* history, not program state
    qidx,        \* the candidate index of each queued item
    curidx,      \* the candidate index of cur, or 0
    grants,      \* the time of every get() of this run
    calls,       \* every processor call of this run:
                 \*   [idx, item, at, raised, store, status, wrote]
    crossref_status, \* the status of the Crossref response of this run, 0 before it
    fate,        \* per candidate of this run: "Skipped" | "Pending" | "Success" | "Failure"
    first,       \* fate at the end of run 1 (in run 2), else <<>>
    before,      \* out_dir at the start of run 1
    cause,       \* why the run ended early: "none" | "query" | "table" | "processor"
                 \*   | "storage" | "interrupt" | "read"
    \* aggregate_gemini_out.main
    columns,     \* the header cells, <<>> before line 57
    rows,        \* the rows written to aggregated_outputs.csv
    lines,       \* what process_lines returned for the last file
    read,        \* history: what readlines() returned for the last file
    survived     \* history: what process_lines returned, per file handled

vars == <<columns, rows, lines, read, survived,
          script, run, pc, source, opts, rl, out_dir, articles, dois, queue, call_log,
          unfinished, now, cur, results, pbar, log, printed,
          qidx, curidx, grants, calls, crossref_status, fate, first, before, cause>>

agg   == <<columns, rows, lines, read, survived>>
env   == <<script, source, opts, before>>
prog  == <<rl, articles, dois, queue, call_log, unfinished, cur, results, pbar, printed>>
ghost == <<qidx, curidx, grants, calls, crossref_status, fate>>

\* The candidates of this run, once enumerated: the DOIs with a title, or the
\* .pdf entries of articles_dir.
Candidates ==
    IF script = "download" THEN dois
    ELSE SelectSeq(source, LAMBDA f : f.suffix = ".pdf")

Options(c, p) == [rlq_calls |-> c, rlq_per_second |-> p]
NoQueue == [calls |-> 0, per |-> 0]

\* The state main starts in.
Fresh ==
    /\ articles = <<>> /\ dois = <<>> /\ queue = <<>> /\ call_log = <<>>
    /\ rl = NoQueue
    /\ unfinished = 0 /\ cur = <<>> /\ results = <<>>
    /\ pbar = [total |-> 0, n |-> 0] /\ log = <<>> /\ printed = <<>>
    /\ qidx = <<>> /\ curidx = 0 /\ grants = <<>> /\ calls = <<>> /\ fate = <<>>
    /\ crossref_status = 0
    /\ cause = "none"

StartPc(s) == IF s = "download" THEN "query" ELSE IF s = "gemini" THEN "list" ELSE "open"

PdfOut == {PdfPath(d) : d \in DOIs}
TxtOut == {TxtPath(e) : e \in DirEntries}

\* Output directories in which only the paths of `mine` may already exist.
Prior(mine) ==
    {o \in [OutPaths -> {"absent", "prior"}] : \A p \in OutPaths \ mine : o[p] = "absent"}

\* aggregate_gemini_out.main has not run.
AggIdle ==
    columns = <<>> /\ rows = <<>> /\ lines = <<>> /\ read = <<>> /\ survived = <<>>

InitCommon ==
    /\ AggIdle
    /\ run = 1 /\ now = 0 /\ first = <<>> /\ before = out_dir
    /\ pc = StartPc(script)
    /\ Fresh

Init ==
    /\ \/ /\ script = "download"
          /\ source \in SeqUpTo(CrossrefItems, MaxItems)
          /\ out_dir \in Prior(PdfOut)
          /\ opts = Options(DefaultCallsDownload, DefaultPerDownload)
       \/ /\ script = "gemini"
          /\ source \in {s \in SeqUpTo(DirEntries, MaxItems) : Injective(s)}
          /\ out_dir \in Prior(TxtOut)
          /\ opts = Options(DefaultCallsGemini, DefaultPerGemini)
    /\ InitCommon

\* Rate-limit runs: N work items, nothing to skip, every configuration.
InitRate ==
    /\ \/ /\ script = "download"
          /\ source \in SeqUpTo({[DOI |-> DOI_C, title |-> TRUE]}, MaxItems + 1)
       \/ /\ script = "gemini"
          /\ \E n \in 0..MaxItems + 1 : source = RateEntries(n)
    /\ out_dir = [p \in OutPaths |-> "absent"]
    /\ opts \in {Options(c, p) : c \in 1..MaxCalls, p \in 1..MaxPer}
    /\ InitCommon

\* ------------------------------------------------- download_articles.main
\* articles = query_crossref(...): a failed query ends the run.
QueryCrossref ==
    /\ script = "download" /\ pc = "query"
    /\ \E status \in StatusCodes :
         LET r == query_crossref(status, source) IN
           /\ log' = log \o r.log
           /\ crossref_status' = status
           /\ IF r.raised
              THEN /\ pc' = "aborted" /\ cause' = "query"
                   /\ UNCHANGED articles
              ELSE /\ pc' = "tsv" /\ articles' = r.value
                   /\ UNCHANGED cause
    /\ UNCHANGED <<agg, env, run, rl, out_dir, dois, queue, call_log, unfinished, now, cur,
                   results, pbar, printed, qidx, curidx, grants, calls, fate, first>>

\* The optional crossref_articles.json and the .tsv table (lines 165-181), then
\* dois (lines 183-187).  Writing either file can raise, which ends the run.
WriteArticleTable ==
    /\ script = "download" /\ pc = "tsv"
    /\ \E ok \in BOOLEAN :
         IF ok
         THEN /\ dois' = Dois(articles)
              /\ pc' = "enqueue"
              /\ UNCHANGED cause
         ELSE /\ pc' = "aborted" /\ cause' = "table"
              /\ UNCHANGED dois
    /\ UNCHANGED <<agg, env, run, rl, out_dir, articles, queue, call_log, unfinished, now, cur,
                   results, pbar, log, printed, ghost, first>>

\* The queue is built (lines 189-196) and the progress bar created (line 198).
EnqueueDois ==
    /\ script = "download" /\ pc = "enqueue"
    /\ LET put  == DoisToPut(dois, out_dir)
           skip == IndexesWhere(dois, LAMBDA d : Exists(out_dir, PdfPath(d)), 1)
       IN  /\ queue' = [k \in DOMAIN put |-> dois[put[k]]]
           /\ qidx' = put
           /\ unfinished' = Len(put)
           /\ log' = log \o [k \in DOMAIN skip |->
                               LogRec("info", "WILEY_DOWNLOAD_SKIP", dois[skip[k]])]
           /\ fate' = [i \in DOMAIN dois |->
                         IF Exists(out_dir, PdfPath(dois[i])) THEN "Skipped" ELSE "Pending"]
           /\ pbar' = [total |-> Len(put), n |-> 0]
    /\ rl' = RateLimitQueue(opts.rlq_calls, opts.rlq_per_second)
    /\ call_log' = <<>>
    /\ pc' = "loop"
    /\ UNCHANGED <<agg, env, run, out_dir, articles, dois, now, cur, results, printed,
                   curidx, grants, calls, crossref_status, first, cause>>

\* doi = dois_to_download.get(): waits for the rate limit, then dequeues.
GetDoi ==
    /\ script = "download" /\ pc = "loop" /\ queue # <<>>
    /\ now' = GrantTime(rl, call_log, now)
    /\ call_log' = CallLogAfter(rl, call_log, now)
    /\ grants' = Append(grants, now')
    /\ cur' = <<Head(queue)>> /\ curidx' = Head(qidx)
    /\ queue' = Tail(queue) /\ qidx' = Tail(qidx)
    /\ pc' = "got"
    /\ UNCHANGED <<agg, env, run, rl, out_dir, articles, dois, unfinished, results, pbar,
                   log, printed, calls, crossref_status, fate, first, cause>>

\* The body of the loop (lines 202-208): download_article under try/except, then
\* pbar.update() and task_done().
DownloadArticle(Worlds) ==
    /\ script = "download" /\ pc = "got"
    /\ \E w \in Worlds :
         LET doi == cur[1]
             r   == download_article(doi, out_dir, w)
         IN  /\ calls' = Append(calls, [idx |-> curidx, item |-> doi, at |-> now,
                                         raised |-> r.raised, store |-> r.store,
                                         status |-> ObservedStatus(w),
                                         wrote |-> r.wrote])
             /\ now' = now + w.dur
             /\ out_dir' = r.out
             /\ IF ~r.raised
                THEN /\ results' = Append(results, r.ret)
                     /\ log' = log \o r.log
                     /\ fate' = [fate EXCEPT ![curidx] =
                                   IF r.ret THEN "Success" ELSE "Failure"]
                     /\ pbar' = [pbar EXCEPT !.n = @ + 1]
                     /\ unfinished' = unfinished - 1
                     /\ pc' = "loop"
                     /\ UNCHANGED cause
                ELSE IF ExceptCatches(r.raised)
                THEN /\ log' = Append(log, LogRec("error", "WILEY_DOWNLOAD_EXCEPTION", doi))
                     /\ fate' = [fate EXCEPT ![curidx] = "Failure"]
                     /\ pbar' = [pbar EXCEPT !.n = @ + 1]
                     /\ unfinished' = unfinished - 1
                     /\ pc' = "loop"
                     /\ UNCHANGED <<results, cause>>
                ELSE /\ fate' = [fate EXCEPT ![curidx] = "Failure"]
                     /\ pc' = "aborted" /\ cause' = "processor"
                     /\ UNCHANGED <<results, log, pbar, unfinished>>
    /\ cur' = <<>> /\ curidx' = 0
    /\ UNCHANGED <<agg, env, run, rl, articles, dois, queue, call_log, printed, qidx,
                   grants, crossref_status, first>>

\* After the loop (lines 210-215): the counts are computed and printed.
ReportDownload ==
    /\ script = "download" /\ pc = "loop" /\ queue = <<>>
    /\ LET n_successful_articles == Len(SelectSeq(results, LAMBDA b : b))
           n_failed_articles     == Len(results) - n_successful_articles
       IN  printed' = printed
                \o <<[msg |-> "MSG_N_SUCCESSFUL", n |-> n_successful_articles]>>
                \o (IF n_failed_articles # 0
                    THEN <<[msg |-> "MSG_N_UNSUCCESSFUL", n |-> n_failed_articles]>>
                    ELSE <<>>)
    /\ pc' = "done"
    /\ UNCHANGED <<agg, env, run, rl, out_dir, articles, dois, queue, call_log, unfinished,
                   now, cur, results, pbar, log, ghost, first, cause>>


\* ------------------------------------------------------ apply_gemini.main
\* articles_in_dir is listed and filtered (lines 94-103).
ListArticles ==
    /\ script = "gemini" /\ pc = "list"
    /\ LET keep == ArticlesToProcess(source, out_dir)
           cand == IndexesWhere(source, LAMBDA f : f.suffix = ".pdf", 1)
       IN  /\ articles' = [k \in DOMAIN keep |-> source[keep[k]]]
           /\ qidx' = [k \in DOMAIN keep |->
                         Len(SelectSeq(SubSeq(source, 1, keep[k]),
                                       LAMBDA f : f.suffix = ".pdf"))]
           /\ fate' = [i \in DOMAIN cand |->
                         IF Exists(out_dir, TxtPath(source[cand[i]]))
                         THEN "Skipped" ELSE "Pending"]
           /\ log' = log \o <<[level |-> "info", msg |-> "FOUND", n |-> Len(source)],
                              [level |-> "info", msg |-> "NEED_PROCESSING",
                               n |-> Len(keep)]>>
    /\ pc' = "enqueue"
    /\ UNCHANGED <<agg, env, run, rl, out_dir, dois, queue, call_log, unfinished, now, cur,
                   results, pbar, printed, curidx, grants, calls, crossref_status,
                   first, cause>>

\* The queue is built (lines 105-107) and the progress bar created (line 109).
EnqueueArticles ==
    /\ script = "gemini" /\ pc = "enqueue"
    /\ rl' = RateLimitQueue(opts.rlq_calls, opts.rlq_per_second)
    /\ queue' = articles
    /\ unfinished' = Len(articles)
    /\ call_log' = <<>>
    /\ pbar' = [total |-> Len(articles), n |-> 0]
    /\ pc' = "loop"
    /\ UNCHANGED <<agg, env, run, out_dir, articles, dois, now, cur, results, log, printed,
                   ghost, first, cause>>

\* article = article_queue.get(): waits for the rate limit, then dequeues.
GetArticle ==
    /\ script = "gemini" /\ pc = "loop" /\ queue # <<>>
    /\ now' = GrantTime(rl, call_log, now)
    /\ call_log' = CallLogAfter(rl, call_log, now)
    /\ grants' = Append(grants, now')
    /\ cur' = <<Head(queue)>> /\ curidx' = Head(qidx)
    /\ queue' = Tail(queue) /\ qidx' = Tail(qidx)
    /\ pc' = "got"
    /\ UNCHANGED <<agg, env, run, rl, out_dir, articles, dois, unfinished, results, pbar,
                   log, printed, calls, crossref_status, fate, first, cause>>

\* The body of the loop (lines 112-124): process_pdf under try/except, then the
\* write of the text outside it.
ProcessArticle(Worlds) ==
    /\ script = "gemini" /\ pc = "got"
    /\ \E w \in Worlds :
         LET article == cur[1]
             r       == process_and_store(article, out_dir, w)
         IN  /\ calls' = Append(calls, [idx |-> curidx, item |-> article, at |-> now,
                                         raised |-> r.raised, store |-> r.uncaught,
                                         status |-> 0, wrote |-> r.wrote])
             /\ now' = now + w.dur
             /\ out_dir' = r.out
             /\ IF r.raised /\ ExceptCatches(r.raised)
                THEN \* logged, pbar.update(), continue: task_done() is not reached
                     /\ log' = Append(log, LogRec("error", "ERR_MSG", article))
                     /\ fate' = [fate EXCEPT ![curidx] = "Failure"]
                     /\ pbar' = [pbar EXCEPT !.n = @ + 1]
                     /\ pc' = "loop"
                     /\ UNCHANGED <<unfinished, cause>>
                ELSE IF r.raised \/ r.uncaught
                THEN \* nothing catches the error: main ends with it
                     /\ fate' = [fate EXCEPT ![curidx] = "Failure"]
                     /\ pc' = "aborted"
                     /\ cause' = IF r.raised THEN "processor" ELSE "storage"
                     /\ UNCHANGED <<log, pbar, unfinished>>
                ELSE /\ log' = Append(log, LogRec("info", "SUCCESS_MSG", article))
                     /\ fate' = [fate EXCEPT ![curidx] = "Success"]
                     /\ pbar' = [pbar EXCEPT !.n = @ + 1]
                     /\ unfinished' = unfinished - 1
                     /\ pc' = "loop"
                     /\ UNCHANGED cause
    /\ cur' = <<>> /\ curidx' = 0
    /\ UNCHANGED <<agg, env, run, rl, articles, dois, queue, call_log, results, printed,
                   qidx, grants, crossref_status, first>>

\* The loop ends when the queue is empty; main returns without a summary.
FinishGemini ==
    /\ script = "gemini" /\ pc = "loop" /\ queue = <<>>
    /\ pc' = "done"
    /\ UNCHANGED <<agg, env, run, out_dir, prog, now, log, ghost, first, cause>>

\* ------------------------------------------------------------- second run
\* The script is started again on the same input: a new process, a new log file,
\* a new queue; the output directory is what the first run left.
Rerun ==
    /\ run = 1 /\ pc \in {"done", "aborted"}
    /\ run' = 2
    /\ first' = fate
    /\ pc' = StartPc(script)
    /\ rl' = NoQueue /\ crossref_status' = 0
    /\ articles' = <<>> /\ dois' = <<>> /\ queue' = <<>> /\ call_log' = <<>>
    /\ unfinished' = 0 /\ cur' = <<>> /\ results' = <<>>
    /\ pbar' = [total |-> 0, n |-> 0] /\ log' = <<>> /\ printed' = <<>>
    /\ qidx' = <<>> /\ curidx' = 0 /\ grants' = <<>> /\ calls' = <<>> /\ fate' = <<>>
    /\ cause' = "none"
    /\ UNCHANGED <<agg, env, out_dir, now>>

\* ---------------------------------------------------------- specifications
Next ==
    \/ QueryCrossref
    \/ WriteArticleTable
    \/ EnqueueDois
    \/ GetDoi
    \/ DownloadArticle(AllWorlds)
    \/ ReportDownload
    \/ ListArticles
    \/ EnqueueArticles
    \/ GetArticle
    \/ ProcessArticle(AllWorlds)
    \/ FinishGemini
    \/ Rerun

Spec == Init /\ [][Next]_vars

\* One run with calls of every duration, for the rate limit.
NextRate ==
    \/ QueryCrossref
    \/ WriteArticleTable
    \/ EnqueueDois
    \/ GetDoi
    \/ DownloadArticle(RateWorlds)
    \/ ReportDownload
    \/ ListArticles
    \/ EnqueueArticles
    \/ GetArticle
    \/ ProcessArticle(RateWorlds)
    \/ FinishGemini

SpecRate == InitRate /\ [][NextRate]_vars

\* The operator interrupts the dispatch loop (Ctrl-C): KeyboardInterrupt is raised
\* in the statement main is executing, a wait in get() or pbar (pc = "loop") or
\* the processor call and the write of its output (pc = "got").  It is not an
\* Exception, so neither `except Exception` (download_articles.py:204,
\* apply_gemini.py:115) catches it, neither main has a finally or a signal handler,
\* and it leaves main.  A write it interrupts may have created the file already.
Interrupt ==
    /\ pc \in {"loop", "got"}
    /\ pc' = "interrupted" /\ cause' = "interrupt"
    /\ \E created \in BOOLEAN :
         out_dir' = IF created /\ pc = "got"
                    THEN [out_dir EXCEPT ![IF script = "download" THEN PdfPath(cur[1])
                                           ELSE TxtPath(cur[1])] = "partial"]
                    ELSE out_dir
    /\ UNCHANGED <<agg, env, run, prog, now, log, ghost, first>>

\* One run of either script that the operator may interrupt.
NextCancel ==
    \/ QueryCrossref
    \/ WriteArticleTable
    \/ EnqueueDois
    \/ GetDoi
    \/ DownloadArticle(AllWorlds)
    \/ ReportDownload
    \/ ListArticles
    \/ EnqueueArticles
    \/ GetArticle
    \/ ProcessArticle(AllWorlds)
    \/ FinishGemini
    \/ Interrupt

SpecCancel == Init /\ [][NextCancel]_vars

\* ------------------------------------------- aggregate_gemini_out.main
\* The state the batch scripts' variables keep while the aggregation runs.
batch == <<env, run, prog, out_dir, now, ghost, first>>

InitAggregate ==
    /\ script = "aggregate"
    /\ \E n \in 0..MaxFiles : source = GlobTxt(n)
    /\ out_dir = [p \in OutPaths |-> "absent"]
    /\ opts = Options(0, 0)
    /\ InitCommon

\* Lines 53-57: the csv is opened and columns = ["doi"].
OpenCsv ==
    /\ script = "aggregate" /\ pc = "open"
    /\ columns' = <<DOI_COLUMN>>
    /\ pc' = "outputs"
    /\ UNCHANGED <<batch, rows, lines, read, survived, log, cause>>

\* One iteration of the loop over outputs (lines 58-66): the file is read, its
\* lines go through process_lines, the header is written if none was, then one
\* row per line after the first.  A file that cannot be read ends the run.
AggregateOutput ==
    /\ script = "aggregate" /\ pc = "outputs" /\ Len(survived) < Len(source)
    /\ LET k      == Len(survived) + 1
           output == source[k]
       IN  /\ log' = Append(log, LogRec("info", "MSG_AGGREGRATING_FILE", output))
           /\ \/ /\ pc' = "aborted" /\ cause' = "read"
                 /\ UNCHANGED agg
              \/ /\ \E content \in SeqUpTo(Lines, MaxLines) :
                       /\ read' = content
                       /\ lines' = process_lines(content)
                 /\ survived' = Append(survived, lines')
                 /\ IF lines' # <<>>
                    THEN /\ rows' = rows \o RowsOf(columns, k, output.stem, lines')
                         /\ columns' = IF NeedsHeader(columns)
                                       THEN columns \o Split(lines'[1], ",")
                                       ELSE columns
                    ELSE UNCHANGED <<rows, columns>>
                 /\ UNCHANGED <<pc, cause>>
    /\ UNCHANGED batch

\* The loop is over and the csv is closed.
CloseCsv ==
    /\ script = "aggregate" /\ pc = "outputs" /\ Len(survived) = Len(source)
    /\ pc' = "done"
    /\ UNCHANGED <<batch, agg, log, cause>>

NextAggregate ==
    \/ OpenCsv
    \/ AggregateOutput
    \/ CloseCsv

SpecAggregate == InitAggregate /\ [][NextAggregate]_vars

TypeOK ==
    /\ script \in {"download", "gemini", "aggregate"}
    /\ run \in {1, 2}
    /\ pc \in {"query", "tsv", "list", "enqueue", "loop", "got", "done", "aborted",
              "interrupted", "open", "outputs"}
    /\ Len(cur) <= 1
    /\ pc \in {"loop", "got", "done", "aborted"} => Len(queue) = Len(qidx)


\* ------------------------------------------------------ what the claims read
Count(s, Test(_)) == Len(SelectSeq(s, Test))

\* Candidate i was passed to the processor in this run.
Attempted(i) == \E k \in DOMAIN calls : calls[k].idx = i
Queued(i)    == \E q \in DOMAIN qidx : qidx[q] = i

\* The filter has run: fate tells which candidates were skipped.
Filtered == pc \in {"loop", "got", "done"} \/ (pc = "aborted" /\ cause \in {"processor", "storage"})

\* The candidates that survived the filter, in enumeration order.
Survivors == IndexesWhere(fate, LAMBDA f : f # "Skipped", 1)

NSuccess == Count(fate, LAMBDA f : f = "Success")
NFailure == Count(fate, LAMBDA f : f = "Failure")
NSkipped == Count(fate, LAMBDA f : f = "Skipped")

\* The number a printed summary line gives, or `none` without such a line.
PrintedN(msg, none) ==
    IF \E k \in DOMAIN printed : printed[k].msg = msg
    THEN printed[CHOOSE k \in DOMAIN printed : printed[k].msg = msg].n
    ELSE none

\* The counts a run reports.  The line of the failures is left out when there are
\* none, which reads as 0; skips are reported as one log line each.
success_count == PrintedN("MSG_N_SUCCESSFUL", -1)
failure_count == IF success_count = -1 THEN -1 ELSE PrintedN("MSG_N_UNSUCCESSFUL", 0)
skipped_count == Count(log, LAMBDA l : l.msg = "WILEY_DOWNLOAD_SKIP")

\* ------------------------------------------------------------------ claims

C2_IdempotentResume ==
    (run = 2 /\ Filtered /\ Len(first) = Len(fate)) =>
        \A i \in DOMAIN fate :
            (fate[i] = "Skipped") <=> (first[i] \in {"Success", "Skipped"})

\* C3: Completeness.  At the end of a run of download_articles.main the reported
\* success, failure and skipped counts add up to the number of candidates.
C3_Completeness ==
    (script = "download" /\ pc = "done") =>
        success_count + failure_count + skipped_count = Len(dois)

\* C4: Every dispatched item leaves exactly one outcome record, and every item
\* whose processor signalled an error (non-200 or an exception) is in the
\* reported failure count.
C4_OneOutcomePerDispatch ==
    (script = "download" /\ pc \in {"loop", "done"}) =>
        /\ Len(results) = Len(calls)
        /\ pc = "done" => failure_count = NFailure

\* C5: Fatal short-circuit.  When the Crossref query answers with a status other
\* than 200, the run is aborted there: nothing is enqueued, no permit is taken,
\* download_article is never called and no outcome is recorded or reported.
C5_FatalShortCircuit ==
    (crossref_status # 0 /\ crossref_status # HTTP_OK) =>
        /\ pc = "aborted" /\ cause = "query"
        /\ queue = <<>> /\ unfinished = 0 /\ grants = <<>> /\ calls = <<>>
        /\ results = <<>> /\ fate = <<>> /\ printed = <<>>
        /\ \A l \in DOMAIN log : log[l].msg = "CROSS_REF_QUERY_FAILED"

\* Crossref answered 404 while there were articles to fetch.
C5_Witness ==
    /\ crossref_status = 404 /\ pc = "aborted"
    /\ \E i \in DOMAIN source : source[i].title /\ ~Exists(out_dir, PdfPath(source[i].DOI))

\* The grants, and the processor calls, inside the window [t, t + p).
GrantsIn(t, p) == Cardinality({k \in DOMAIN grants : t <= grants[k] /\ grants[k] < t + p})
CallsIn(t, p)  == Cardinality({k \in DOMAIN calls : t <= calls[k].at /\ calls[k].at < t + p})

\* C6: Rate bound.  With --rlq_calls c and --rlq_per_second p, no window [t, t + p)
\* holds more than c grants of get(); the k-th processor call starts after the
\* k-th grant and before the next one, so no window holds more than c call starts.
C6_RateBound ==
    /\ \A t \in 0..now : GrantsIn(t, opts.rlq_per_second) <= opts.rlq_calls
    /\ Len(calls) <= Len(grants) /\ Len(grants) <= Len(calls) + 1
    /\ \A k \in DOMAIN calls :
          /\ grants[k] <= calls[k].at
          /\ k < Len(grants) => calls[k].at <= grants[k + 1]
    /\ \A t \in 0..now : CallsIn(t, opts.rlq_per_second) <= opts.rlq_calls

\* Three items at 2 calls per 2 seconds: the third get() waited for the window.
C6_Witness ==
    /\ opts = Options(2, 2) /\ pc = "done" /\ Len(grants) = 3
    /\ grants[3] = grants[1] + 2 /\ calls[3].at > calls[2].at

\* C7: A failure to write an item's output is a failure of that item only: the run
\* is not aborted and the remaining items are dispatched, in both scripts.
C7_StorageFailureNotFatal ==
    \A k \in DOMAIN calls : calls[k].store =>
        /\ pc # "aborted"
        /\ pc = "done" => \A i \in DOMAIN fate : fate[i] # "Skipped" => Attempted(i)

\* C8: Every run that got to dispatch ends with a report of the success, failure
\* and skipped counts, whatever failed: it never ends on an item's error, and the
\* counts it reports are the numbers of items that succeeded, failed and were
\* skipped.
C8_AlwaysReports ==
    /\ cause \notin {"processor", "storage"}
    /\ pc = "done" =>
          /\ success_count = NSuccess
          /\ failure_count = NFailure
          /\ skipped_count = NSkipped

\* An item of this run is recorded as skipped in the log.
SkipRecorded(item) ==
    \E l \in DOMAIN log : log[l].msg = "WILEY_DOWNLOAD_SKIP" /\ log[l].item = item

\* C9: A candidate whose output exists at the completion check is never enqueued,
\* never passed to the processor, and is recorded as skipped.
C9_CompleteNeverDispatched ==
    Filtered =>
        \A i \in DOMAIN fate : fate[i] = "Skipped" =>
            /\ ~Attempted(i) /\ ~Queued(i) /\ curidx # i
            /\ SkipRecorded(Candidates[i])

\* C10: FIFO dispatch.  The k-th processor call is for the k-th candidate that
\* survived the filter, in enumeration order, and calls start in that order.
C10_FifoDispatch ==
    Filtered =>
        /\ Len(calls) <= Len(Survivors)
        /\ \A k \in DOMAIN calls :
              /\ calls[k].idx = Survivors[k]
              /\ calls[k].item = Candidates[Survivors[k]]
              /\ k > 1 => calls[k - 1].at <= calls[k].at

\* Three different DOIs, none downloaded before, were all passed on, in order.
C10_Witness ==
    /\ script = "download" /\ pc = "done" /\ Len(calls) = 3
    /\ calls[1].item # calls[2].item /\ calls[2].item # calls[3].item
    /\ calls[1].item # calls[3].item

\* The run has left the dispatch loop, by its end or by an exception.
LoopLeft == Filtered /\ pc \in {"done", "aborted"}

\* C11: No retry and guaranteed drain.  No candidate is passed to the processor
\* twice or queued again after its attempt, and the dispatch loop is left with an
\* empty queue after as many processor calls as items were enqueued.
C11_NoRetryDrain ==
    /\ \A j, k \in DOMAIN calls : calls[j].idx = calls[k].idx => j = k
    /\ \A i \in DOMAIN fate : Attempted(i) => ~Queued(i)
    /\ LoopLeft => queue = <<>> /\ Len(calls) = Len(Survivors)

\* The output location of a dispatched item.
OutputOf(item) == IF script = "download" THEN PdfPath(item) ELSE TxtPath(item)

\* C13: Within one run no output location is opened for writing by more than one
\* dispatch, whatever the enumerated list.
C13_OneWriterPerOutput ==
    \A j, k \in DOMAIN calls :
        (calls[j].wrote /\ calls[k].wrote
            /\ OutputOf(calls[j].item) = OutputOf(calls[k].item)) => j = k

\* C14: Progress is advanced once per dispatched item, succeeded or failed: between
\* iterations the progress count is the number of items handled, and when the
\* loop is left it is the progress total.
C14_ProgressExactlyOnce ==
    /\ pc = "loop" => pbar.n = Len(calls)
    /\ LoopLeft => pbar.n = Len(calls) /\ pbar.n = pbar.total

\* C16: Queue task accounting is balanced.  Between iterations the unfinished
\* tasks are the items still queued, and none is left when the loop has ended.
C16_TaskAccountingBalanced ==
    /\ pc = "loop" => unfinished = Len(queue)
    /\ pc = "done" => unfinished = 0

\* The processor call just recorded failed in the way the claim names: a non-200
\* response to download_article, or process_pdf raising.
FailedAttempt(c) ==
    IF script = "download" THEN c.status \notin {0, HTTP_OK} ELSE c.raised

\* No dispatch of this run other than the k-th wrote the output of the k-th.
OnlyWriter(cs, k) ==
    \A j \in DOMAIN cs :
        (j # k /\ cs[j].wrote) => OutputOf(cs[j].item) # OutputOf(cs[k].item)

SummaryReported == success_count = Count(results, LAMBDA ok : ok)

\* C12: Cooperative cancellation.  After an operator interrupt during the dispatch
\* loop no further item is dequeued and no further permit is acquired, and a
\* summary of the outcomes recorded so far is still reported.
C12_CooperativeCancellation ==
    pc = "interrupted" =>
        /\ ~ENABLED (GetDoi \/ GetArticle)
        /\ SummaryReported

\* A line with no letter and no digit in it.
NoLetterOrDigit(line) == CharSet(line) \cap ALL_LETTERS_AND_DIGITS = {}

\* The lines the claim says are kept: those that neither start with the ticks nor
\* lack letters and digits, stripped, in their order.
RECURSIVE KeptLines(_)
KeptLines(ls) ==
    IF ls = <<>> THEN <<>>
    ELSE (IF StartsWithTicks(Head(ls)) \/ NoLetterOrDigit(Head(ls))
          THEN <<>> ELSE <<Strip(Head(ls))>>) \o KeptLines(Tail(ls))

\* C17: process_lines removes every line that starts with the three ticks and
\* every line without letters or digits, and returns the other lines stripped, in
\* their order, whatever the list of lines.
C17_ProcessLines ==
    (script = "aggregate" /\ Len(survived) > 0) => lines = KeptLines(read)

\* The files handled so far that have a surviving line, and the header rows.
WithLines  == {k \in DOMAIN survived : survived[k] # <<>>}
HeaderRows == {r \in DOMAIN rows : rows[r].header}

\* C18: aggregate_gemini_out.main writes one header row when some file has
\* surviving lines and none otherwise; the header is "doi" and the cells of the
\* first surviving line of the first such file; no first surviving line is written
\* as a data row, and every data row begins with the stem of its file.
C18_OneHeaderStemRows ==
    /\ Cardinality(HeaderRows) = IF WithLines = {} THEN 0 ELSE 1
    /\ \A r \in HeaderRows :
          LET k == CHOOSE k \in WithLines : \A j \in WithLines : k <= j
          IN  /\ r = 1 /\ rows[r].file = k
              /\ rows[r].cells = <<DOI_COLUMN>> \o Split(survived[k][1], ",")
    /\ \A r \in DOMAIN rows \ HeaderRows :
          /\ rows[r].line > 1
          /\ rows[r].cells[1] = source[rows[r].file].stem
          /\ rows[r].cells =
                <<source[rows[r].file].stem>>
                    \o Split(survived[rows[r].file][rows[r].line], ",")

\* The first file had no surviving line; the header came from the second, whose
\* second line became a data row that starts with the second file's stem.
C18_Witness ==
    /\ script = "aggregate" /\ pc = "done" /\ Len(survived) = 2
    /\ survived[1] = <<>> /\ Len(survived[2]) = 2
    /\ Len(rows) = 2 /\ rows[1].header /\ rows[1].file = 2
    /\ rows[1].cells = <<DOI_COLUMN, <<"h">>, <<"x">> >>
    /\ rows[2].cells = <<source[2].stem, <<"1">>, <<"2">> >>

====
